---- MODULE Spec2Model ----
(***************************************************************************)
(* Build provenance record of agentgateway core (crates/core/src/version.rs). *)
(* Text is modelled as sequences of one-character strings, so that what is  *)
(* inserted into an output can be compared character for character.         *)
(***************************************************************************)
EXTENDS Naturals, Sequences, FiniteSets, TLC

VARIABLES benv, phase, consts, renv, insts, res, first

vars == << benv, phase, consts, renv, insts, res, first >>

(* ---------------------------------------------------------------------- *)
(* Bounds of the exploration.                                             *)
(* ---------------------------------------------------------------------- *)
\* longest string of the generated input strings
MaxLen == 2
\* number of BuildInfo values one process obtains
MaxInst == 2

\* characters the generated strings are made of: a plain character, a
\* double quote, both braces and a blank
Alphabet == { "a", "\"", "{", "}", " " }

Strs(n) == UNION { [1..k -> Alphabet] : k \in 0..n }

\* Option<T>: None is the empty tuple, Some(x) the one-element tuple
None == << >>
Some(x) == << x >>

(* ---------------------------------------------------------------------- *)
(* Environments.                                                          *)
(* ---------------------------------------------------------------------- *)
BuildVars == { "MCPGW_BUILD_buildVersion", "MCPGW_BUILD_buildGitRevision",
               "MCPGW_BUILD_buildStatus", "MCPGW_BUILD_buildTag",
               "MCPGW_BUILD_RUSTC_VERSION", "MCPGW_BUILD_PROFILE_NAME" }

\* a value that looks like the text between two fields of the textual form
TemplateLike == <<"\"", ",", " ", "B", "u", "i", "l", "d", "P", "r", "o", "f", "i", "l", "e", ":", "\"" >>

InputVals == { None } \cup { Some(s) : s \in Strs(MaxLen) \cup { TemplateLike } }

EnvS1 ==
    [ x \in BuildVars |->
        CASE x = "MCPGW_BUILD_buildVersion"     -> Some(<<"1", ".", "2", ".", "3" >>)
          [] x = "MCPGW_BUILD_buildGitRevision" -> Some(<<"a", "b", "c", "d", "e", "f", "0" >>)
          [] x = "MCPGW_BUILD_buildStatus"      -> Some(<<"C", "l", "e", "a", "n" >>)
          [] x = "MCPGW_BUILD_buildTag"         -> Some(<<"v", "1", ".", "2", ".", "3" >>)
          [] x = "MCPGW_BUILD_RUSTC_VERSION"    -> Some(<<"r", "u", "s", "t", "c", " ", "1", ".", "7", "5", ".", "0" >>)
          [] x = "MCPGW_BUILD_PROFILE_NAME"     -> Some(<<"r", "e", "l", "e", "a", "s", "e" >>) ]

EnvAllEmpty == [ x \in BuildVars |-> Some(<< >>) ]

EnvUnset == [ x \in BuildVars |-> None ]

\* the environments a build is run in: the inputs of scenario S1, every
\* variable empty or every variable unset, with at most one variable replaced
BaseEnvs == { EnvS1, EnvAllEmpty, EnvUnset }

BuildEnvs ==
    BaseEnvs \cup { [ b EXCEPT ![x] = v ] :
                      b \in BaseEnvs, x \in BuildVars, v \in InputVals }

\* the environments a process is launched in
RuntimeEnvs(b) ==
    { b, EnvUnset, [ x \in BuildVars |-> Some(<< "x" >>) ] }

(* ---------------------------------------------------------------------- *)
(* Compile time: env!                                                     *)
(* ---------------------------------------------------------------------- *)
ConstNames == { "BUILD_VERSION", "BUILD_GIT_REVISION", "BUILD_STATUS",
                "BUILD_TAG", "BUILD_RUST_VERSION", "BUILD_RUST_PROFILE" }

\* as env!, but an empty value is taken for a missing variable
EnvMacro_EmptyIsError(env, name) ==
    IF env[name] = None \/ env[name] = Some(<< >>)
      THEN [ ok |-> FALSE, lit |-> << >> ]
      ELSE [ ok |-> TRUE,  lit |-> env[name][1] ]

\* env!(name): the variable's value as a string literal, or a compile error
\* when the variable is not defined in the compiler's environment
EnvMacro(env, name) ==
    IF env[name] = None
      THEN [ ok |-> FALSE, lit |-> << >> ]
      ELSE [ ok |-> TRUE,  lit |-> env[name][1] ]

\* the six const items, as expanded by the compiler in environment env
ConstItems(env) ==
    [ c \in ConstNames |->
        CASE c = "BUILD_VERSION"      -> EnvMacro(env, "MCPGW_BUILD_buildVersion")
          [] c = "BUILD_GIT_REVISION" -> EnvMacro(env, "MCPGW_BUILD_buildGitRevision")
          [] c = "BUILD_STATUS"       -> EnvMacro(env, "MCPGW_BUILD_buildStatus")
          [] c = "BUILD_TAG"          -> EnvMacro(env, "MCPGW_BUILD_buildTag")
          [] c = "BUILD_RUST_VERSION" -> EnvMacro(env, "MCPGW_BUILD_RUSTC_VERSION")
          [] c = "BUILD_RUST_PROFILE" -> EnvMacro(env, "MCPGW_BUILD_PROFILE_NAME") ]

NoConsts == [ c \in ConstNames |-> << >> ]

BUILD_VERSION      == consts["BUILD_VERSION"]
BUILD_GIT_REVISION == consts["BUILD_GIT_REVISION"]
BUILD_STATUS       == consts["BUILD_STATUS"]
BUILD_TAG          == consts["BUILD_TAG"]
BUILD_RUST_VERSION == consts["BUILD_RUST_VERSION"]
BUILD_RUST_PROFILE == consts["BUILD_RUST_PROFILE"]

(* ---------------------------------------------------------------------- *)
(* BuildInfo                                                              *)
(* ---------------------------------------------------------------------- *)
\* the fields of the struct, in declaration order
FieldNames == << "version", "git_revision", "rust_version",
                 "build_profile", "build_status", "git_tag" >>

\* str::to_string: a new String holding the same characters
to_string(s) == [ i \in 1..Len(s) |-> s[i] ]

\* as new(), with the status and tag constants exchanged
BuildInfo_new_CrossWired(procEnv) ==
    [ version       |-> to_string(BUILD_VERSION),
      git_revision  |-> to_string(BUILD_GIT_REVISION),
      rust_version  |-> to_string(BUILD_RUST_VERSION),
      build_profile |-> to_string(BUILD_RUST_PROFILE),
      build_status  |-> to_string(BUILD_TAG),
      git_tag       |-> to_string(BUILD_STATUS) ]

\* std::env::var(name).unwrap_or_default()
EnvVarOrDefault(procEnv, name) ==
    IF procEnv[name] = None THEN << >> ELSE procEnv[name][1]

\* as new(), reading the variables of the running process
BuildInfo_new_RuntimeEnv(procEnv) ==
    [ version       |-> EnvVarOrDefault(procEnv, "MCPGW_BUILD_buildVersion"),
      git_revision  |-> EnvVarOrDefault(procEnv, "MCPGW_BUILD_buildGitRevision"),
      rust_version  |-> EnvVarOrDefault(procEnv, "MCPGW_BUILD_RUSTC_VERSION"),
      build_profile |-> EnvVarOrDefault(procEnv, "MCPGW_BUILD_PROFILE_NAME"),
      build_status  |-> EnvVarOrDefault(procEnv, "MCPGW_BUILD_buildStatus"),
      git_tag       |-> EnvVarOrDefault(procEnv, "MCPGW_BUILD_buildTag") ]

\* BuildInfo::new(); procEnv is the environment of the running process
BuildInfo_new(procEnv) ==
    [ version       |-> to_string(BUILD_VERSION),
      git_revision  |-> to_string(BUILD_GIT_REVISION),
      rust_version  |-> to_string(BUILD_RUST_VERSION),
      build_profile |-> to_string(BUILD_RUST_PROFILE),
      build_status  |-> to_string(BUILD_STATUS),
      git_tag       |-> to_string(BUILD_TAG) ]

\* derive(Default): every field is String::default(), the empty string
BuildInfo_default ==
    [ version |-> << >>, git_revision |-> << >>, rust_version |-> << >>,
      build_profile |-> << >>, build_status |-> << >>, git_tag |-> << >> ]

\* derive(Clone): a field-by-field copy
BuildInfo_clone(self) ==
    [ version       |-> to_string(self.version),
      git_revision  |-> to_string(self.git_revision),
      rust_version  |-> to_string(self.rust_version),
      build_profile |-> to_string(self.build_profile),
      build_status  |-> to_string(self.build_status),
      git_tag       |-> to_string(self.git_tag) ]

(* ---------------------------------------------------------------------- *)
(* Display: write!(f, "...", args)                                        *)
(* ---------------------------------------------------------------------- *)
\* the format string literal, as written in the source between its quotes
FMT_LITERAL == <<
    "v", "e", "r", "s", "i", "o", "n", ".", "B", "u", "i", "l", "d", "I", "n", "f",
    "o", "{", "{", "R", "u", "s", "t", "V", "e", "r", "s", "i", "o", "n", ":", "\\",
    "\"", "{", "}", "\\", "\"", ",", " ", "B", "u", "i", "l", "d", "P", "r", "o", "f",
    "i", "l", "e", ":", "\\", "\"", "{", "}", "\\", "\"", ",", " ", "B", "u", "i", "l",
    "d", "S", "t", "a", "t", "u", "s", ":", "\\", "\"", "{", "}", "\\", "\"", ",", " ",
    "G", "i", "t", "T", "a", "g", ":", "\\", "\"", "{", "}", "\\", "\"", ",", " ", "V",
    "e", "r", "s", "i", "o", "n", ":", "\\", "\"", "{", "}", "\\", "\"", ",", " ", "G",
    "i", "t", "R", "e", "v", "i", "s", "i", "o", "n", ":", "\\", "\"", "{", "}", "\\",
    "\"", "}", "}" >>

\* the first position of s at or after i that holds a character of set C,
\* Len(s) + 1 when there is none
NextOf(s, i, C) ==
    LET hits == { p \in i..Len(s) : s[p] \in C }
    IN IF hits = { } THEN Len(s) + 1
       ELSE CHOOSE p \in hits : \A q \in hits : p <= q

\* the string a Rust string literal denotes: \" is a double quote and \\ a
\* backslash (the literal holds no other escape)
RECURSIVE Unescape(_, _)
Unescape(s, i) ==
    LET p == NextOf(s, i, { "\\" })
    IN IF p >= Len(s) THEN SubSeq(s, i, Len(s))
       ELSE SubSeq(s, i, p - 1) \o << s[p + 1] >> \o Unescape(s, p + 2)

\* format_args!: the format string cut into literal pieces and argument
\* places; {{ and }} are literal braces, {} is the next positional argument
Lit(t) == [ kind |-> "lit", text |-> t, idx |-> 0 ]
Arg(k) == [ kind |-> "arg", text |-> << >>, idx |-> k ]

RECURSIVE ParseFormat(_, _, _, _)
ParseFormat(s, i, cur, k) ==
    LET p     == NextOf(s, i, { "{", "}" })
        lit   == cur \o SubSeq(s, i, p - 1)
        flush == IF lit = << >> THEN << >> ELSE << Lit(lit) >>
    IN IF p >= Len(s) THEN
            IF cur \o SubSeq(s, i, Len(s)) = << >> THEN << >>
            ELSE << Lit(cur \o SubSeq(s, i, Len(s))) >>
       ELSE IF s[p] = s[p + 1]
         THEN ParseFormat(s, p + 2, Append(lit, s[p]), k)
       ELSE IF s[p] = "{" /\ s[p + 1] = "}"
         THEN flush \o << Arg(k) >> \o ParseFormat(s, p + 2, << >>, k + 1)
       ELSE ParseFormat(s, p + 1, Append(lit, s[p]), k)

FmtPieces == ParseFormat(Unescape(FMT_LITERAL, 1), 1, << >>, 1)

\* the arguments in the declaration order of the fields
FmtArgs_DeclOrder(self) ==
    << self.version, self.git_revision, self.rust_version,
       self.build_profile, self.build_status, self.git_tag >>

\* the version passed in the place of the revision as well
FmtArgs_VersionTwice(self) ==
    << self.rust_version, self.build_profile, self.build_status,
       self.git_tag, self.version, self.version >>

\* the arguments of write!, in the order they are passed
FmtArgs(self) ==
    << self.rust_version, self.build_profile, self.build_status,
       self.git_tag, self.version, self.git_revision >>

\* String's Debug, {:?}: a double quote and a backslash get a backslash
RECURSIVE DisplayStr_Debug(_)
DisplayStr_Debug(s) ==
    IF s = << >> THEN << >>
    ELSE (IF Head(s) \in { "\"", "\\" } THEN << "\\", Head(s) >> ELSE << Head(s) >>)
         \o DisplayStr_Debug(Tail(s))

\* String's Display: the characters as they are
DisplayStr(s) == s

RECURSIVE WritePieces(_, _, _)
WritePieces(pieces, n, args) ==
    IF n > Len(pieces) THEN << >>
    ELSE (IF pieces[n].kind = "lit" THEN pieces[n].text
          ELSE DisplayStr(args[pieces[n].idx]))
         \o WritePieces(pieces, n + 1, args)

\* as fmt, but an empty field is reported as an error
BuildInfo_fmt_ErrOnEmpty(self, sinkOk) ==
    IF sinkOk /\ \A n \in DOMAIN FmtArgs(self) : FmtArgs(self)[n] # << >>
      THEN [ ok |-> TRUE,  text |-> WritePieces(FmtPieces, 1, FmtArgs(self)) ]
      ELSE [ ok |-> FALSE, text |-> << >> ]

\* Display::fmt: the pieces are written to the formatter's sink in order; an
\* error of the sink is the only error, and it is passed on
BuildInfo_fmt(self, sinkOk) ==
    IF sinkOk
      THEN [ ok |-> TRUE,  text |-> WritePieces(FmtPieces, 1, FmtArgs(self)) ]
      ELSE [ ok |-> FALSE, text |-> << >> ]

(* ---------------------------------------------------------------------- *)
(* derive(serde::Serialize)                                               *)
(* ---------------------------------------------------------------------- *)
\* as derived, under #[serde(rename_all = "camelCase")]
BuildInfo_serialize_CamelCase(self, serOk) ==
    IF serOk
      THEN [ ok |-> TRUE,
             rec |-> << << "version",      self.version >>,
                        << "gitRevision",  self.git_revision >>,
                        << "rustVersion",  self.rust_version >>,
                        << "buildProfile", self.build_profile >>,
                        << "buildStatus",  self.build_status >>,
                        << "gitTag",       self.git_tag >> >> ]
      ELSE [ ok |-> FALSE, rec |-> << >> ]

\* serialize_struct("BuildInfo", 6), then serialize_field(key, &value) for
\* each field in declaration order, then end(); an error of the serializer is
\* the only error, and it is passed on
BuildInfo_serialize(self, serOk) ==
    IF serOk
      THEN [ ok |-> TRUE,
             rec |-> << << "version",       self.version >>,
                        << "git_revision",  self.git_revision >>,
                        << "rust_version",  self.rust_version >>,
                        << "build_profile", self.build_profile >>,
                        << "build_status",  self.build_status >>,
                        << "git_tag",       self.git_tag >> >> ]
      ELSE [ ok |-> FALSE, rec |-> << >> ]

(* ---------------------------------------------------------------------- *)
(* The life of one build and of the processes run from it.                *)
(* ---------------------------------------------------------------------- *)
\* res is the outcome of the last operation: ext tells whether the sink or
\* serializer it wrote to accepted the writes, rep whether the operation had
\* been completed on that instance before
NoRes == [ op |-> "none", inst |-> 0, ext |-> TRUE, ok |-> TRUE, rep |-> FALSE,
           text |-> << >>, rec |-> << >> ]

NoFirst == [ fmt |-> None, ser |-> None ]

Init ==
    /\ benv \in BuildEnvs
    /\ phase = "source"
    /\ consts = NoConsts
    /\ renv = EnvUnset
    /\ insts = << >>
    /\ res = NoRes
    /\ first = << >>

\* cargo build: the six env! are expanded; one compile error fails the build
\* and no artifact is produced
Compile ==
    /\ phase = "source"
    /\ LET items == ConstItems(benv)
       IN IF \E c \in ConstNames : ~ items[c].ok
            THEN /\ phase' = "failed"
                 /\ UNCHANGED consts
            ELSE /\ phase' = "built"
                 /\ consts' = [ c \in ConstNames |-> items[c].lit ]
    /\ UNCHANGED << benv, renv, insts, res, first >>

\* the artifact is started as a process, in some environment
Launch(e) ==
    /\ phase \in { "built", "running" }
    /\ phase' = "running"
    /\ renv' = e
    /\ insts' = << >>
    /\ res' = NoRes
    /\ first' = << >>
    /\ UNCHANGED << benv, consts >>

Obtain(how, v) ==
    /\ phase = "running"
    /\ insts' = Append(insts, [ how |-> how, v |-> v ])
    /\ first' = Append(first, NoFirst)
    /\ res' = [ NoRes EXCEPT !.op = how, !.inst = Len(insts) + 1 ]
    /\ UNCHANGED << benv, phase, consts, renv >>

\* let b = BuildInfo::new();
New ==
    /\ Len(insts) < MaxInst
    /\ Obtain("new", BuildInfo_new(renv))

\* let b = BuildInfo::default();
Default ==
    /\ Len(insts) < MaxInst
    /\ Obtain("default", BuildInfo_default)

\* let c = b.clone();
Clone(i) ==
    /\ Len(insts) < MaxInst
    /\ Obtain("clone", BuildInfo_clone(insts[i].v))

\* as Format, but the version is moved out of the instance
Format_Consuming(i, sinkOk) ==
    /\ phase = "running"
    /\ LET r == BuildInfo_fmt(insts[i].v, sinkOk)
       IN /\ res' = [ op |-> "fmt", inst |-> i, ext |-> sinkOk, ok |-> r.ok,
                      rep |-> first[i].fmt # None,
                      text |-> r.text, rec |-> << >> ]
          /\ first' = IF r.ok /\ first[i].fmt = None
                        THEN [ first EXCEPT ![i].fmt = Some(r.text) ]
                        ELSE first
    /\ insts' = [ insts EXCEPT ![i].v.version = << >> ]
    /\ UNCHANGED << benv, phase, consts, renv >>

\* write!(sink, "{}", b), b.to_string(): Display::fmt of instance i
Format(i, sinkOk) ==
    /\ phase = "running"
    /\ LET r == BuildInfo_fmt(insts[i].v, sinkOk)
       IN /\ res' = [ op |-> "fmt", inst |-> i, ext |-> sinkOk, ok |-> r.ok,
                      rep |-> first[i].fmt # None,
                      text |-> r.text, rec |-> << >> ]
          /\ first' = IF r.ok /\ first[i].fmt = None
                        THEN [ first EXCEPT ![i].fmt = Some(r.text) ]
                        ELSE first
    /\ UNCHANGED << benv, phase, consts, renv, insts >>

\* b.serialize(serializer) of instance i
Serialize(i, serOk) ==
    /\ phase = "running"
    /\ LET r == BuildInfo_serialize(insts[i].v, serOk)
       IN /\ res' = [ op |-> "ser", inst |-> i, ext |-> serOk, ok |-> r.ok,
                      rep |-> first[i].ser # None,
                      text |-> << >>, rec |-> r.rec ]
          /\ first' = IF r.ok /\ first[i].ser = None
                        THEN [ first EXCEPT ![i].ser = Some(r.rec) ]
                        ELSE first
    /\ UNCHANGED << benv, phase, consts, renv, insts >>

\* One build, the processes launched from it and the BuildInfo values they
\* obtain.
Next ==
    \/ Compile
    \/ \E e \in RuntimeEnvs(benv) : Launch(e)
    \/ New
    \/ Default
    \/ \E i \in 1..Len(insts) : Clone(i)

Spec == Init /\ [][Next]_vars

\* a process that obtains its BuildInfo and renders it again and again
NewHeld ==
    /\ insts = << >>
    /\ Obtain("new", BuildInfo_new(renv))

DefaultHeld ==
    /\ insts = << >>
    /\ Obtain("default", BuildInfo_default)

NextUse ==
    \/ Compile
    \/ \E e \in RuntimeEnvs(benv) : Launch(e)
    \/ NewHeld
    \/ DefaultHeld
    \/ \E i \in 1..Len(insts), sinkOk \in BOOLEAN : Format(i, sinkOk)
    \/ \E i \in 1..Len(insts), serOk \in BOOLEAN : Serialize(i, serOk)

SpecUse == Init /\ [][NextUse]_vars

(* ---------------------------------------------------------------------- *)
(* Properties.                                                            *)
(* ---------------------------------------------------------------------- *)
\* the text of the textual form around the six values
T_Open     == << "v", "e", "r", "s", "i", "o", "n", ".", "B", "u", "i", "l", "d",
       "I", "n", "f", "o", "{", "R", "u", "s", "t", "V", "e", "r", "s",
       "i", "o", "n", ":", "\"" >>
T_Profile  == << "\"", ",", " ", "B", "u", "i", "l", "d", "P", "r", "o", "f", "i",
       "l", "e", ":", "\"" >>
T_Status   == << "\"", ",", " ", "B", "u", "i", "l", "d", "S", "t", "a", "t", "u",
       "s", ":", "\"" >>
T_Tag      == << "\"", ",", " ", "G", "i", "t", "T", "a", "g", ":", "\"" >>
T_Version  == << "\"", ",", " ", "V", "e", "r", "s", "i", "o", "n", ":", "\"" >>
T_Revision == << "\"", ",", " ", "G", "i", "t", "R", "e", "v", "i", "s", "i", "o",
       "n", ":", "\"" >>
T_Close    == << "\"", "}" >>

T_Lits == << T_Open, T_Profile, T_Status, T_Tag, T_Version, T_Revision, T_Close >>

\* the textual form of scenario S1
S1_Line ==
    << "v", "e", "r", "s", "i", "o", "n", ".", "B", "u", "i", "l", "d",
       "I", "n", "f", "o", "{", "R", "u", "s", "t", "V", "e", "r", "s",
       "i", "o", "n", ":", "\"", "r", "u", "s", "t", "c", " ", "1", ".",
       "7", "5", ".", "0", "\"", ",", " ", "B", "u", "i", "l", "d", "P",
       "r", "o", "f", "i", "l", "e", ":", "\"", "r", "e", "l", "e", "a",
       "s", "e", "\"", ",", " ", "B", "u", "i", "l", "d", "S", "t", "a",
       "t", "u", "s", ":", "\"", "C", "l", "e", "a", "n", "\"", ",", " ",
       "G", "i", "t", "T", "a", "g", ":", "\"", "v", "1", ".", "2", ".",
       "3", "\"", ",", " ", "V", "e", "r", "s", "i", "o", "n", ":", "\"",
       "1", ".", "2", ".", "3", "\"", ",", " ", "G", "i", "t", "R", "e",
       "v", "i", "s", "i", "o", "n", ":", "\"", "a", "b", "c", "d", "e",
       "f", "0", "\"", "}" >>

\* the build-time input of a variable that is set
Input(x) == benv[x][1]

\* the six inputs in the order of the textual form
InputsInTextOrder ==
    << Input("MCPGW_BUILD_RUSTC_VERSION"), Input("MCPGW_BUILD_PROFILE_NAME"),
       Input("MCPGW_BUILD_buildStatus"), Input("MCPGW_BUILD_buildTag"),
       Input("MCPGW_BUILD_buildVersion"), Input("MCPGW_BUILD_buildGitRevision") >>

\* the variable a field is documented to carry
VarOfField(k) ==
    CASE k = "version"       -> "MCPGW_BUILD_buildVersion"
      [] k = "git_revision"  -> "MCPGW_BUILD_buildGitRevision"
      [] k = "build_status"  -> "MCPGW_BUILD_buildStatus"
      [] k = "git_tag"       -> "MCPGW_BUILD_buildTag"
      [] k = "rust_version"  -> "MCPGW_BUILD_RUSTC_VERSION"
      [] k = "build_profile" -> "MCPGW_BUILD_PROFILE_NAME"

FieldSet == { "version", "git_revision", "rust_version",
              "build_profile", "build_status", "git_tag" }

Held(i) == insts[i].v

HasQuote(s) == \E n \in 1..Len(s) : s[n] = "\""

\* C1: format() returns the template with the six fields put in, in the
\* order rust_version, build_profile, build_status, git_tag, version,
\* git_revision, and nothing else.
C1_FormatTemplate ==
    (res.op = "fmt" /\ res.ok) =>
        LET b == Held(res.inst)
        IN res.text = T_Open \o b.rust_version \o T_Profile \o b.build_profile
                      \o T_Status \o b.build_status \o T_Tag \o b.git_tag
                      \o T_Version \o b.version \o T_Revision \o b.git_revision
                      \o T_Close

\* a BuildInfo built from the inputs of S1 has been formatted to the line of S1
C1_Witness ==
    /\ res.op = "fmt" /\ res.ok
    /\ benv = EnvS1
    /\ insts[res.inst].how = "new"
    /\ res.text = S1_Line

\* C2: every BuildInfo returned by new() carries, field by field, the
\* build-time input documented for that field.
C2_OneToOne ==
    \A i \in 1..Len(insts) :
        insts[i].how = "new" =>
            /\ Held(i).version       = Input("MCPGW_BUILD_buildVersion")
            /\ Held(i).git_revision  = Input("MCPGW_BUILD_buildGitRevision")
            /\ Held(i).build_status  = Input("MCPGW_BUILD_buildStatus")
            /\ Held(i).git_tag       = Input("MCPGW_BUILD_buildTag")
            /\ Held(i).rust_version  = Input("MCPGW_BUILD_RUSTC_VERSION")
            /\ Held(i).build_profile = Input("MCPGW_BUILD_PROFILE_NAME")

\* new() has returned a value from six inputs that differ pairwise
C2_Witness ==
    /\ \E i \in 1..Len(insts) : insts[i].how = "new"
    /\ \A x, y \in BuildVars : x # y => benv[x] # benv[y]

\* C3: the build fails exactly when one of the six variables is unset; a
\* failed build yields no artifact, hence no process and no BuildInfo; a
\* variable set to the empty string is captured as the empty string.
C3_BuildFailsIffAbsent ==
    /\ phase # "source" =>
          ((phase = "failed") <=> (\E x \in BuildVars : benv[x] = None))
    /\ phase = "failed" => (insts = << >> /\ consts = NoConsts /\ res = NoRes)
    /\ \A i \in 1..Len(insts), k \in FieldSet :
          (insts[i].how = "new" /\ benv[VarOfField(k)] = Some(<< >>))
              => Held(i)[k] = << >>

\* the build has failed with exactly one variable unset and another one empty
C3_Witness ==
    /\ phase = "failed"
    /\ Cardinality({ x \in BuildVars : benv[x] = None }) = 1
    /\ \E x \in BuildVars : benv[x] = Some(<< >>)

\* the build has succeeded with an empty variable, and new() has run
C3_EmptyCaptured ==
    /\ phase = "running"
    /\ \E x \in BuildVars : benv[x] = Some(<< >>)
    /\ \E x \in BuildVars : benv[x] # Some(<< >>)
    /\ \E i \in 1..Len(insts) : insts[i].how = "new"

\* C4: what new() returns does not depend on the environment of the
\* process: the value obtained in the environment of this launch is the
\* value new() returns in every other runtime environment.
C4_LaunchEnvIrrelevant ==
    phase = "running" =>
        /\ \A e1, e2 \in RuntimeEnvs(benv) : BuildInfo_new(e1) = BuildInfo_new(e2)
        /\ \A i \in 1..Len(insts) :
              insts[i].how = "new" =>
                  \A e \in RuntimeEnvs(benv) : Held(i) = BuildInfo_new(e)

\* new() has run in a process whose environment differs from the build's in
\* every variable
C4_Witness ==
    /\ phase = "running"
    /\ \A x \in BuildVars : renv[x] # benv[x]
    /\ \E i \in 1..Len(insts) : insts[i].how = "new"
    /\ \E x \in BuildVars : benv[x] # Some(<< >>)

\* C5: every BuildInfo that can be obtained has each field set from the
\* corresponding build-time input.
C5_OnlyBuildInputs ==
    \A i \in 1..Len(insts), k \in FieldSet : Held(i)[k] = Input(VarOfField(k))

\* C6: a serialize() or format() call leaves every instance as it was, and
\* its output is the output of the first such call on that instance.
C6_NoMutation ==
    [][ res'.op \in { "fmt", "ser" } =>
          /\ insts' = insts
          /\ (res'.op = "fmt" /\ res'.ok) =>
                first'[res'.inst].fmt = Some(res'.text)
          /\ (res'.op = "ser" /\ res'.ok) =>
                first'[res'.inst].ser = Some(res'.rec)
          /\ \A i \in 1..Len(insts) :
                /\ first[i].fmt # None => first'[i].fmt = first[i].fmt
                /\ first[i].ser # None => first'[i].ser = first[i].ser ]_vars

\* format() has been repeated on an instance that has also been serialized
C6_Witness ==
    /\ res.op = "fmt" /\ res.ok /\ res.rep
    /\ first[res.inst].ser # None
    /\ \E k \in FieldSet : Held(res.inst)[k] # << >>

\* C7: serialize() emits six entries whose keys are exactly the six field
\* names, each once, the value under a key being the field of that name.
C7_SerializeKeys ==
    (res.op = "ser" /\ res.ok) =>
        /\ Len(res.rec) = Cardinality(FieldSet)
        /\ { res.rec[n][1] : n \in 1..Len(res.rec) } = FieldSet
        /\ \A n \in 1..Len(res.rec) :
              res.rec[n][1] \in FieldSet
                  => res.rec[n][2] = Held(res.inst)[res.rec[n][1]]

\* a BuildInfo whose six fields differ pairwise has been serialized
C7_Witness ==
    /\ res.op = "ser" /\ res.ok
    /\ \A j, k \in FieldSet : j # k => Held(res.inst)[j] # Held(res.inst)[k]

\* where the n-th value starts in the textual form of the inputs
StartOf(n) ==
    LET RECURSIVE Upto(_)
        Upto(m) == IF m = 0 THEN 0
                   ELSE Upto(m - 1) + Len(T_Lits[m])
                        + (IF m < n THEN Len(InputsInTextOrder[m]) ELSE 0)
    IN Upto(n) + 1

\* C8: every input string, whatever its characters, is found unchanged as
\* the value of its field in the serialize() output and at the place of its
\* field in the format() output of the BuildInfo that new() returned, and the
\* format() output holds no character besides the template and the inputs.
C8_Opaque ==
    (res.op \in { "fmt", "ser" } /\ res.ok /\ insts[res.inst].how = "new") =>
        /\ res.op = "fmt" =>
              /\ \A n \in DOMAIN InputsInTextOrder :
                    SubSeq(res.text, StartOf(n),
                           StartOf(n) + Len(InputsInTextOrder[n]) - 1)
                      = InputsInTextOrder[n]
              /\ Len(res.text) = StartOf(Len(T_Lits)) - 1
        /\ res.op = "ser" =>
              \A n \in 1..Len(res.rec) :
                  res.rec[n][2] = Input(VarOfField(FieldNames[n]))

\* an input holding a double quote has been formatted and serialized
C8_Witness ==
    /\ res.op = "fmt" /\ res.ok /\ insts[res.inst].how = "new"
    /\ first[res.inst].ser # None
    /\ \E x \in BuildVars : HasQuote(Input(x)) /\ Len(Input(x)) <= MaxLen

\* C9: no operation ends in an error of its own: fmt and serialize end Ok
\* whenever the sink or serializer they write to accepts the writes, and
\* new() yields a BuildInfo with all six fields.
C9_Total ==
    /\ (res.op \in { "fmt", "ser" } /\ res.ext) => res.ok
    /\ res.op \in { "new", "default" } =>
          (res.ok /\ DOMAIN Held(res.inst) = FieldSet)

\* a BuildInfo whose fields are all empty has been formatted without error
C9_Witness ==
    /\ res.op = "fmt" /\ res.ext /\ res.ok
    /\ insts[res.inst].how = "new"
    /\ \A k \in FieldSet : Held(res.inst)[k] = << >>

\* reading a line back: after each piece of template text, the value runs up
\* to the next double quote
RECURSIVE ReadValues(_, _, _)
ReadValues(t, pos, n) ==
    LET lit  == T_Lits[n]
        from == pos + Len(lit)
        q    == NextOf(t, from, { "\"" })
    IN IF SubSeq(t, pos, from - 1) # lit THEN << "unreadable" >>
       ELSE IF n = Len(T_Lits)
         THEN (IF from = Len(t) + 1 THEN << >> ELSE << "unreadable" >>)
       ELSE << SubSeq(t, from, q - 1) >> \o ReadValues(t, q, n + 1)

NoQuotes(b) == \A k \in FieldSet : ~ HasQuote(b[k])

\* C10: format() is injective on values without a double quote: the six
\* fields of such a value are read back from its line, so two such values
\* with the same line are the same value.
C10_Injective ==
    (res.op = "fmt" /\ res.ok /\ NoQuotes(Held(res.inst))) =>
        LET b == Held(res.inst)
        IN ReadValues(res.text, 1, 1)
             = << b.rust_version, b.build_profile, b.build_status,
                  b.git_tag, b.version, b.git_revision >>

\* a value without double quotes, holding braces or a blank, has been
\* formatted
C10_Witness ==
    /\ res.op = "fmt" /\ res.ok /\ NoQuotes(Held(res.inst))
    /\ \E k \in FieldSet : \E n \in 1..Len(Held(res.inst)[k]) :
          Held(res.inst)[k][n] \in { "{", "}", " " }
    /\ \E j, k \in FieldSet : Held(res.inst)[j] # Held(res.inst)[k]

\* with a double quote in a field the line no longer tells the fields: the
\* value formatted here and the value with the same text in the next field
\* have the same line
C10_QuotedCollision ==
    /\ res.op = "fmt" /\ res.ok
    /\ Held(res.inst).rust_version = TemplateLike
    /\ Held(res.inst).build_profile = << >>
    /\ LET other == [ Held(res.inst) EXCEPT !.rust_version = << >>,
                                            !.build_profile = TemplateLike ]
       IN other # Held(res.inst) /\ BuildInfo_fmt(other, TRUE).text = res.text

====
